---- MODULE Spec2Model ----
(***************************************************************************)
(* Model of the channel-selection read path                                *)
(* (src/image/read/specific_channels.rs) and of the layer write dispatch   *)
(* (src/image/write/layers.rs).                                            *)
(*                                                                         *)
(* Rust values are encoded as follows.                                     *)
(*   Option<T>   None = [some |-> FALSE], Some(x) = [some |-> TRUE, val |-> x] *)
(*   Vec2<usize> <<x, y>>                                                  *)
(*   Vec<u8>     a sequence of numbers in 0..255; Rust index i is i+1 here *)
(*   Result<T>   a record with a field ok; Err carries the Error           *)
(*   Error::invalid(text)  [kind |-> "Invalid", message |-> words of text] *)
(* A panic (unwrap on None, index out of range, a failed assert, a chunk   *)
(* size of zero) ends the run: the status of the operation is "panic".     *)
(***************************************************************************)
EXTENDS Integers, Sequences, FiniteSets, TLC

VARIABLES
    pc,               \* "read": about to build a reader; "reading": a reader exists;
                      \* "write": layers not yet described; "described"; "writing";
                      \* "failed": the operation returned Err; "panicked"
    header,           \* read path: the layer's Header
    channel_names,    \* read path: ReadSpecificChannels.channel_names, one entry per slot
    reader,           \* read path: Option<SpecificChannelsReader>
    storage,          \* read path: the pixel storage, as the sequence of set_pixel calls applied to it
    created,          \* read path: number of calls of the storage factory (create)
    inspected,        \* read path: number of runs of inspect_channels
    block,            \* the block handed to the last read_block / extract_uncompressed_block
    blocks_read,      \* read path: number of read_block calls so far
    layers,           \* write path: the Layers collection
    image_attributes, \* write path: the shared ImageAttributes
    headers,          \* write path: the Headers returned by infer_headers
    writer,           \* write path: Option<AllLayersWriter>
    channel_line_reader, \* line path: a slot's line reader, used on its own
    row_bytes,        \* line path: the row buffer handed to read_next_sample
    sample,           \* line path: the Option<Sample> of the last read_next_sample
    samples_read,     \* line path: number of read_next_sample calls so far
    result            \* outcome of the last operation

vars == <<pc, header, channel_names, reader, storage, created, inspected, block,
          blocks_read, layers, image_attributes, headers, writer,
          channel_line_reader, row_bytes, sample, samples_read, result>>

readVars == <<header, channel_names, reader, storage, created, inspected, blocks_read>>
writeVars == <<layers, image_attributes, headers, writer>>
lineVars == <<channel_line_reader, row_bytes, sample, samples_read>>

(***************************************************************************)
(* Bounds of the model.                                                    *)
(***************************************************************************)
MaxChannels == 3
MaxWidth == 2
MaxHeight == 2
MaxBlocks == 2
MaxLayers == 2
MaxLineBytes == 5
MaxSamples == 2

(***************************************************************************)
(* Rust scaffolding.                                                       *)
(***************************************************************************)
None == [some |-> FALSE]
Some(x) == [some |-> TRUE, val |-> x]

Min(a, b) == IF a < b THEN a ELSE b

\* s[from..] of a slice
SliceFrom(s, from) == SubSeq(s, from + 1, Len(s))

\* s[from..to] of a slice
SliceRange(s, from, to) == SubSeq(s, from + 1, to)

Invalid(words) == [kind |-> "Invalid", message |-> words]

NoError == [kind |-> "None", message |-> <<>>]

NoBlock == [layer |-> 0, pixel_position |-> <<0, 0>>, pixel_size |-> <<0, 0>>, data |-> <<>>]

NoHeader == [channels |-> [list |-> <<>>, bytes_per_pixel |-> 0], deep |-> FALSE, layer_size |-> <<0, 0>>]

NoResult == [op |-> "none", status |-> "none", error |-> NoError, bytes |-> <<>>]

(***************************************************************************)
(* Samples and channel lists.                                              *)
(***************************************************************************)
bytes_per_sample(sample_type) == IF sample_type = "F16" THEN 2 ELSE 4

RECURSIVE SumBytes(_)
SumBytes(list) ==
    IF list = <<>> THEN 0
    ELSE bytes_per_sample(Head(list).sample_type) + SumBytes(Tail(list))

\* ChannelList::new: bytes_per_pixel is the sum of the channels' sample sizes
ChannelList_new(list) == [list |-> list, bytes_per_pixel |-> SumBytes(list)]

\* f16::read / f32::read / u32::read on a byte cursor: the sample's value is
\* given by the bytes read, lowest byte first
Data_read(sample_type, bytes) ==
    LET n == bytes_per_sample(sample_type)
        taken == SubSeq(bytes, 1, Min(n, Len(bytes)))
    IN [ok |-> TRUE, val |-> [type |-> sample_type, bits |-> taken], error |-> NoError]

(***************************************************************************)
(* Channel resolution: ReadFilteredChannels::inspect_channels and the two  *)
(* ChannelParameter implementations.  A slot of the selection is           *)
(* [name, required]: required = TRUE is the parameter type Sample,         *)
(* required = FALSE is Option<Sample>.                                     *)
(***************************************************************************)
MissingChannelMessage ==
    <<"layer", "does", "not", "contain", "all", "of", "the", "specified", "required", "channels">>

DeepDataMessage == <<"layer", "has", "deep", "data,", "no", "flat", "rgba", "data">>

BlockSizeMessage == <<"block", "size", "for", "header">>

\* the if / else-if chain over the slots: the first slot whose name equals the
\* channel's name takes the channel (0: no slot does)
MatchingSlot(self, name) ==
    LET hits == {k \in 1..Len(self) : self[k].name = name}
    IN IF hits = {} THEN 0 ELSE CHOOSE k \in hits : \A j \in hits : k <= j

RECURSIVE inspect_loop(_, _, _, _, _)

\* a slip of inspect_loop: a slot that already holds a channel keeps it
inspect_loop_keep_first(self, list, channel_index, found, byte_offset) ==
    IF channel_index >= Len(list) THEN found
    ELSE LET channel == list[channel_index + 1]
             chan_info == [sample_byte_offset |-> byte_offset,
                           info |-> channel,
                           channel_index |-> channel_index]
             k == MatchingSlot(self, channel.name)
             next == IF k = 0 \/ found[k].some THEN found
                     ELSE [found EXCEPT ![k] = Some(chan_info)]
         IN inspect_loop(self, list, channel_index + 1, next,
                         byte_offset + bytes_per_sample(channel.sample_type))

\* the for loop over channels.list.iter().enumerate()
inspect_loop(self, list, channel_index, found, byte_offset) ==
    IF channel_index >= Len(list) THEN found
    ELSE LET channel == list[channel_index + 1]
             chan_info == [sample_byte_offset |-> byte_offset,
                           info |-> channel,
                           channel_index |-> channel_index]
             k == MatchingSlot(self, channel.name)
             next == IF k = 0 THEN found ELSE [found EXCEPT ![k] = Some(chan_info)]
         IN inspect_loop(self, list, channel_index + 1, next,
                         byte_offset + bytes_per_sample(channel.sample_type))

\* a slip of Sample_create_channel_pixel_reader: an absent channel gets a
\* placeholder at offset zero instead of the error
Sample_create_channel_pixel_reader_placeholder(info) ==
    IF info.some
    THEN [ok |-> TRUE, sample_type |-> info.val.info, reader |-> info.val, error |-> NoError]
    ELSE [ok |-> TRUE,
          sample_type |-> [name |-> "", sample_type |-> "F32"],
          reader |-> [sample_byte_offset |-> 0,
                      info |-> [name |-> "", sample_type |-> "F32"],
                      channel_index |-> 0],
          error |-> NoError]

\* impl ChannelParameter for Sample
Sample_create_channel_pixel_reader(info) ==
    IF info.some
    THEN [ok |-> TRUE, sample_type |-> info.val.info, reader |-> info.val, error |-> NoError]
    ELSE [ok |-> FALSE, sample_type |-> None, reader |-> None,
          error |-> Invalid(MissingChannelMessage)]

\* a slip of Option_create_channel_pixel_reader: an absent optional channel is an error
Option_create_channel_pixel_reader_strict(info) ==
    IF info.some
    THEN [ok |-> TRUE, sample_type |-> Some(info.val.info), reader |-> Some(info.val), error |-> NoError]
    ELSE [ok |-> FALSE, sample_type |-> None, reader |-> None,
          error |-> Invalid(MissingChannelMessage)]

\* impl ChannelParameter for Option<Sample>
Option_create_channel_pixel_reader(info) ==
    IF info.some
    THEN [ok |-> TRUE, sample_type |-> Some(info.val.info), reader |-> Some(info.val), error |-> NoError]
    ELSE [ok |-> TRUE, sample_type |-> None, reader |-> None, error |-> NoError]

create_channel_pixel_reader(slot, info) ==
    IF slot.required THEN Sample_create_channel_pixel_reader(info)
    ELSE Option_create_channel_pixel_reader(info)

\* the slots are finalised in order; `?` returns the first error
inspect_channels(self, channels) ==
    LET found == inspect_loop(self, channels.list, 0, [k \in 1..Len(self) |-> None], 0)
        made == [k \in 1..Len(self) |-> create_channel_pixel_reader(self[k], found[k])]
        failed == {k \in 1..Len(self) : ~made[k].ok}
    IN IF failed # {}
       THEN [ok |-> FALSE,
             error |-> made[CHOOSE k \in failed : \A j \in failed : k <= j].error,
             sample_types |-> <<>>, pixel_reader |-> <<>>]
       ELSE [ok |-> TRUE, error |-> NoError,
             sample_types |-> [k \in 1..Len(self) |-> made[k].sample_type],
             pixel_reader |-> [k \in 1..Len(self) |->
                                 [required |-> self[k].required, reader |-> made[k].reader]]]

\* the storage factory of the model: the storage starts with no pixel set
create(info) == <<>>

\* a slip of create_channels_reader: the deep flag is looked at only after the
\* channels were resolved
create_channels_reader_deep_last(self, hdr) ==
    LET inspection == inspect_channels(self, hdr.channels)
        info == [sample_types |-> inspection.sample_types, resolution |-> hdr.layer_size]
    IN IF ~inspection.ok
       THEN [ok |-> FALSE, error |-> inspection.error, reader |-> None,
             inspected |-> 1, created |-> 0]
       ELSE IF hdr.deep
       THEN [ok |-> FALSE, error |-> Invalid(DeepDataMessage), reader |-> None,
             inspected |-> 1, created |-> 0]
       ELSE [ok |-> TRUE, error |-> NoError,
             reader |-> Some([storage |-> create(info),
                              pixel_reader |-> inspection.pixel_reader,
                              info |-> info]),
             inspected |-> 1, created |-> 1]

\* ReadChannels::create_channels_reader.  inspected and created count the runs
\* of inspect_channels and of the storage factory.
create_channels_reader(self, hdr) ==
    IF hdr.deep
    THEN [ok |-> FALSE, error |-> Invalid(DeepDataMessage), reader |-> None,
          inspected |-> 0, created |-> 0]
    ELSE LET inspection == inspect_channels(self, hdr.channels)
             info == [sample_types |-> inspection.sample_types, resolution |-> hdr.layer_size]
         IN IF ~inspection.ok
            THEN [ok |-> FALSE, error |-> inspection.error, reader |-> None,
                  inspected |-> 1, created |-> 0]
            ELSE [ok |-> TRUE, error |-> NoError,
                  reader |-> Some([storage |-> create(info),
                                   pixel_reader |-> inspection.pixel_reader,
                                   info |-> info]),
                  inspected |-> 1, created |-> 1]

(***************************************************************************)
(* The cursor protocol: pixel readers, line readers, samples.              *)
(***************************************************************************)
\* a slip of Sample_create_channel_line_reader: the offset is not scaled by the line's pixel count
Sample_create_channel_line_reader_unscaled(self, pixel_count) ==
    [sample_type |-> self.info.sample_type, index |-> self.sample_byte_offset]

\* impl ChannelPixelReader<Sample> for ChannelIndexInfo
Sample_create_channel_line_reader(self, pixel_count) ==
    LET start == self.sample_byte_offset * pixel_count
    IN [sample_type |-> self.info.sample_type, index |-> start]

\* impl ChannelPixelReader<Option<Sample>> for Option<ChannelIndexInfo>
Option_create_channel_line_reader(self, line_width) ==
    IF self.some THEN Some(Sample_create_channel_line_reader(self.val, line_width)) ELSE None

\* impl PixelReader for the tuple of channel pixel readers
create_pixel_reader_for_line(self, pixel_count) ==
    [k \in 1..Len(self) |->
        [required |-> self[k].required,
         cursor |-> IF self[k].required
                    THEN Sample_create_channel_line_reader(self[k].reader, pixel_count)
                    ELSE Option_create_channel_line_reader(self[k].reader, pixel_count)]]

\* a slip of SampleRead: the cursor is advanced by four bytes whatever the sample type
SampleRead_fixed_width(self, read) ==
    [ok |-> read.ok, val |-> read.val, error |-> read.error,
     cursor |-> [self EXCEPT !.index = self.index + 4]]

\* the sample read and the cursor advanced by the sample's size
SampleRead(self, read) ==
    [ok |-> read.ok, val |-> read.val, error |-> read.error,
     cursor |-> [self EXCEPT !.index = self.index + bytes_per_sample(self.sample_type)]]

\* a slip of Sample_read_next_sample: the start of the read is not clamped, and
\* slicing from an index past the end of the row does not yield a sample
Sample_read_next_sample_unclamped(self, bytes) ==
    IF self.index > Len(bytes)
    THEN SampleRead(self, [ok |-> FALSE, val |-> [type |-> self.sample_type, bits |-> <<>>],
                           error |-> Invalid(<<"range", "start", "out", "of", "range">>)])
    ELSE SampleRead(self, Data_read(self.sample_type, SliceFrom(bytes, self.index)))

\* impl ChannelLineReader<Sample> for (SampleType, usize): the read starts at
\* bytes[index.min(bytes.len())..]
Sample_read_next_sample(self, bytes) ==
    SampleRead(self, Data_read(self.sample_type, SliceFrom(bytes, Min(self.index, Len(bytes)))))

\* .map(..).transpose() of a present cursor's read
OptionRead(read) ==
    [ok |-> read.ok, val |-> Some(read.val), error |-> read.error, cursor |-> Some(read.cursor)]

\* impl ChannelLineReader<Option<Sample>> for Option<(SampleType, usize)>
Option_read_next_sample(self, bytes) ==
    IF self.some THEN OptionRead(Sample_read_next_sample(self.val, bytes))
    ELSE [ok |-> TRUE, val |-> None, error |-> NoError, cursor |-> None]

SlotRead(required, read) ==
    [ok |-> read.ok, val |-> read.val, error |-> read.error,
     slot |-> [required |-> required, cursor |-> read.cursor]]

read_next_sample(slot, bytes) ==
    IF slot.required THEN SlotRead(TRUE, Sample_read_next_sample(slot.cursor, bytes))
    ELSE SlotRead(FALSE, Option_read_next_sample(slot.cursor, bytes))

\* the pixel of the slots' reads; `?` returns the first error
PixelRead(self, reads) ==
    LET failed == {k \in 1..Len(self) : ~reads[k].ok}
    IN IF failed # {}
       THEN [ok |-> FALSE, error |-> reads[CHOOSE k \in failed : \A j \in failed : k <= j].error,
             pixel |-> <<>>, line_reader |-> self]
       ELSE [ok |-> TRUE, error |-> NoError,
             pixel |-> [k \in 1..Len(self) |-> reads[k].val],
             line_reader |-> [k \in 1..Len(self) |-> reads[k].slot]]

\* impl PixelLineReader for the tuple of line readers: the slots are read in order
read_next_pixel(self, bytes) ==
    PixelRead(self, [k \in 1..Len(self) |-> read_next_sample(self[k], bytes)])

\* the byte index of each slot's cursor (None for an absent optional slot)
CursorIndices(line_reader) ==
    [k \in 1..Len(line_reader) |->
        IF line_reader[k].required THEN Some(line_reader[k].cursor.index)
        ELSE IF line_reader[k].cursor.some THEN Some(line_reader[k].cursor.val.index)
        ELSE None]

(***************************************************************************)
(* The block decode loop: ChannelsReader::read_block.                      *)
(***************************************************************************)
\* slice::chunks_exact for a chunk size above zero (a chunk size of zero panics)
chunks_exact(data, chunk_size) ==
    [i \in 1..(Len(data) \div chunk_size) |->
        SubSeq(data, (i - 1) * chunk_size + 1, i * chunk_size)]

\* one set_pixel call; before and after are the cursors' byte indices around
\* the read_next_pixel that produced the pixel
SinkCall(position, pixel, before, after) ==
    [position |-> position, pixel |-> pixel, before |-> before, after |-> after]

RECURSIVE read_line(_, _, _, _, _, _)

\* a slip of read_line_body: the pixel is set at pixel_position + Vec2(y, x)
read_line_body_transposed(line_reader, read, byte_line, x, y, blk, calls) ==
    IF ~read.ok THEN [ok |-> FALSE, error |-> read.error, calls |-> calls]
    ELSE read_line(read.line_reader, byte_line, x + 1, y, blk,
                   Append(calls,
                          SinkCall(<<blk.pixel_position[1] + y, blk.pixel_position[2] + x>>,
                                   read.pixel,
                                   CursorIndices(line_reader),
                                   CursorIndices(read.line_reader))))

\* the body of the loop over x: `?` on the pixel read, then set_pixel at
\* block.index.pixel_position + Vec2(x, y)
read_line_body(line_reader, read, byte_line, x, y, blk, calls) ==
    IF ~read.ok THEN [ok |-> FALSE, error |-> read.error, calls |-> calls]
    ELSE read_line(read.line_reader, byte_line, x + 1, y, blk,
                   Append(calls,
                          SinkCall(<<blk.pixel_position[1] + x, blk.pixel_position[2] + y>>,
                                   read.pixel,
                                   CursorIndices(line_reader),
                                   CursorIndices(read.line_reader))))

\* for x in 0..block.index.pixel_size.0
read_line(line_reader, byte_line, x, y, blk, calls) ==
    IF x >= blk.pixel_size[1] THEN [ok |-> TRUE, error |-> NoError, calls |-> calls]
    ELSE read_line_body(line_reader, read_next_pixel(line_reader, byte_line),
                        byte_line, x, y, blk, calls)

RECURSIVE read_lines(_, _, _, _, _)

\* after one row: an error ends the loop, otherwise the next row follows
read_lines_body(initial_pixel_line_reader, line, byte_lines, y, blk) ==
    IF ~line.ok THEN line
    ELSE read_lines(initial_pixel_line_reader, byte_lines, y + 1, blk, line.calls)

\* for (y, byte_line) in byte_lines.enumerate(): every row starts from a clone
\* of the initial line reader
read_lines(initial_pixel_line_reader, byte_lines, y, blk, calls) ==
    IF y >= Len(byte_lines) THEN [ok |-> TRUE, error |-> NoError, calls |-> calls]
    ELSE read_lines_body(initial_pixel_line_reader,
                         read_line(initial_pixel_line_reader, byte_lines[y + 1], 0, y, blk, calls),
                         byte_lines, y, blk)

\* Ok(()) after the loops, or the error `?` returned
BlockRead(lines) ==
    [status |-> IF lines.ok THEN "ok" ELSE "err", error |-> lines.error, calls |-> lines.calls]

\* a slip of read_block: the block's byte length is not compared with the header's
read_block_unchecked(self, hdr, blk) ==
    LET pixels_per_line == blk.pixel_size[1]
        line_bytes == pixels_per_line * hdr.channels.bytes_per_pixel
    IN IF line_bytes = 0
       THEN [status |-> "panic", error |-> NoError, calls |-> <<>>]
       ELSE IF Len(chunks_exact(blk.data, line_bytes)) # blk.pixel_size[2]
       THEN [status |-> "panic", error |-> NoError, calls |-> <<>>]
       ELSE BlockRead(read_lines(create_pixel_reader_for_line(self.pixel_reader, pixels_per_line),
                                 chunks_exact(blk.data, line_bytes), 0, blk, <<>>))

\* calls: the set_pixel calls made, in order, before the operation ended
read_block(self, hdr, blk) ==
    LET area == blk.pixel_size[1] * blk.pixel_size[2]
        pixels_per_line == blk.pixel_size[1]
        line_bytes == pixels_per_line * hdr.channels.bytes_per_pixel
    IN IF hdr.channels.bytes_per_pixel * area # Len(blk.data)
       THEN [status |-> "err", error |-> Invalid(BlockSizeMessage), calls |-> <<>>]
       ELSE IF line_bytes = 0
       THEN [status |-> "panic", error |-> NoError, calls |-> <<>>]
       ELSE IF Len(chunks_exact(blk.data, line_bytes)) # blk.pixel_size[2]
       THEN [status |-> "panic", error |-> NoError, calls |-> <<>>]
       ELSE BlockRead(read_lines(create_pixel_reader_for_line(self.pixel_reader, pixels_per_line),
                                 chunks_exact(blk.data, line_bytes), 0, blk, <<>>))

(***************************************************************************)
(* The inputs of the read path.                                            *)
(***************************************************************************)
RECURSIVE SeqsUpTo(_, _)
SeqsUpTo(S, n) ==
    IF n = 0 THEN {<<>>}
    ELSE LET shorter == SeqsUpTo(S, n - 1)
         IN shorter \cup {Append(s, e) : s \in {t \in shorter : Len(t) = n - 1}, e \in S}

\* the channels a layer may declare: every name, every sample type, and a name
\* declared with two sample types
ChannelDescriptions ==
    {[name |-> "R", sample_type |-> "F32"], [name |-> "G", sample_type |-> "F32"],
     [name |-> "B", sample_type |-> "U32"], [name |-> "R", sample_type |-> "F16"]}

ChannelLists == SeqsUpTo(ChannelDescriptions, MaxChannels)

ReadHeaders ==
    {[channels |-> ChannelList_new(list), deep |-> deep, layer_size |-> <<MaxWidth, MaxHeight>>] :
        list \in ChannelLists, deep \in BOOLEAN}

Selection(names, required) ==
    [k \in 1..Len(names) |-> [name |-> names[k], required |-> required[k]]]

\* three distinct names with every mix of required and optional slots, and a
\* selection that names one channel twice
Selections ==
    {Selection(<<"R", "G", "B">>, required) : required \in [1..3 -> BOOLEAN]}
        \cup {Selection(<<"B", "R", "R">>, required) :
                 required \in {<<TRUE, TRUE, TRUE>>, <<TRUE, TRUE, FALSE>>, <<FALSE, FALSE, FALSE>>}}

\* the pixel position of a layer's first block
Origins == {<<2, 1>>}

Ramp(n) == [i \in 1..n |-> i % 256]

\* two rows of two pixels of R = 1, 2, 3, 4 and G = 5, 6, 7, 8 in four-byte samples, channel-planar
PlanarExample ==
    <<1, 0, 0, 0,  2, 0, 0, 0,  5, 0, 0, 0,  6, 0, 0, 0,
      3, 0, 0, 0,  4, 0, 0, 0,  7, 0, 0, 0,  8, 0, 0, 0>>

\* byte buffers of the expected length n, one byte longer, one byte shorter
BlockData(n) ==
    {Ramp(n), Ramp(n + 1)}
        \cup (IF n > 0 THEN {Ramp(n - 1)} ELSE {})
        \cup (IF n = Len(PlanarExample) THEN {PlanarExample} ELSE {})

\* the first block of a layer: any origin, any size
FirstBlocks(hdr) ==
    UNION {
        {[layer |-> 0, pixel_position |-> o, pixel_size |-> <<w, h>>, data |-> d] :
            d \in BlockData(hdr.channels.bytes_per_pixel * w * h)} :
        o \in Origins, w \in 0..MaxWidth, h \in 0..MaxHeight}

\* a later block of the layer: the tile of the same size to the right of the last one
NextBlocks(hdr, last) ==
    {[layer |-> 0,
      pixel_position |-> <<last.pixel_position[1] + last.pixel_size[1], last.pixel_position[2]>>,
      pixel_size |-> last.pixel_size,
      data |-> d] :
        d \in BlockData(hdr.channels.bytes_per_pixel * last.pixel_size[1] * last.pixel_size[2])}

ReadBlocks(hdr, last, count) == IF count = 0 THEN FirstBlocks(hdr) ELSE NextBlocks(hdr, last)

(***************************************************************************)
(* The inputs of the line path: a slot's line reader and a row buffer.     *)
(***************************************************************************)
NoLineReader == [required |-> FALSE, cursor |-> None]

\* the ChannelIndexInfo of the last channel of a list
LastChannelInfo(list) ==
    [sample_byte_offset |-> SumBytes(SubSeq(list, 1, Len(list) - 1)),
     info |-> list[Len(list)],
     channel_index |-> Len(list) - 1]

\* the pixel readers of one slot: of a required channel, of an optional channel
\* that is present, of an optional channel that is absent
SlotPixelReaders ==
    {[required |-> TRUE, reader |-> LastChannelInfo(list)] :
        list \in ChannelLists \ {<<>>}}
    \cup {[required |-> FALSE, reader |-> Some(LastChannelInfo(list))] :
        list \in ChannelLists \ {<<>>}}
    \cup {[required |-> FALSE, reader |-> None]}

\* the line readers create_pixel_reader_for_line makes of them, for any line width
LineReaders ==
    {create_pixel_reader_for_line(<<slot>>, pixel_count)[1] :
        slot \in SlotPixelReaders, pixel_count \in 0..MaxWidth}

\* row buffers of every length, an empty one included
RowBuffers == {Ramp(n) : n \in 0..MaxLineBytes}

(***************************************************************************)
(* The write path: header inference and block extraction dispatch.         *)
(***************************************************************************)
\* WritableChannels::infer_channel_list: the channel list the channel data describes
infer_channel_list(channel_data) == ChannelList_new(channel_data.list)

\* WritableChannels::level_mode
level_mode(channel_data) == channel_data.level_mode

\* WritableChannels::create_writer: the channel writer of this channel data for this header
Channels_create_writer(channel_data, hdr) == [channel_data |-> channel_data, header |-> hdr]

\* ChannelsWriter::extract_uncompressed_block: the bytes this channel writer
\* extracts for this block when given this header
Channels_extract_uncompressed_block(channels, hdr, blk) ==
    [extracted_by |-> channels, with_header |-> hdr, for_block |-> blk]

\* impl WritableLayers for Layer<C>
Layer_infer_headers(self, attributes) ==
    LET hdr == [channels |-> infer_channel_list(self.channel_data),
                compression |-> self.encoding.compression,
                blocks |-> IF self.encoding.blocks.kind = "ScanLines"
                           THEN [kind |-> "ScanLines"]
                           ELSE [kind |-> "Tiles",
                                 level_mode |-> level_mode(self.channel_data),
                                 tile_size |-> self.encoding.blocks.tile_size,
                                 rounding_mode |-> self.encoding.blocks.rounding_mode],
                line_order |-> self.encoding.line_order,
                layer_size |-> self.size,
                shared_attributes |-> attributes,
                own_attributes |-> self.attributes,
                deep |-> FALSE,
                deep_data_version |-> None,
                chunk_count |-> 0,
                max_samples_per_pixel |-> None]
    IN <<hdr>>

\* a slip of Layers_infer_headers: the headers are collected back to front
Layers_infer_headers_reversed(self, attributes) ==
    [i \in 1..Len(self) |-> Layer_infer_headers(self[Len(self) + 1 - i], attributes)[1]]

\* impl WritableLayers for Layers<C>: layer.infer_headers(..).remove(0), collected in order
Layers_infer_headers(self, attributes) ==
    [i \in 1..Len(self) |-> Layer_infer_headers(self[i], attributes)[1]]

\* Layer::create_writer: headers.first().unwrap()
Layer_create_writer(self, hdrs) ==
    IF hdrs = <<>> THEN [status |-> "panic", writer |-> None]
    ELSE [status |-> "ok",
          writer |-> Some([channels |-> Channels_create_writer(self.channel_data, hdrs[1])])]

\* Layers::create_writer: self.iter().zip(headers.chunks_exact(1))
Layers_create_writer(self, hdrs) ==
    LET chunks == chunks_exact(hdrs, 1)
        n == Min(Len(self), Len(chunks))
        made == [i \in 1..n |-> Layer_create_writer(self[i], chunks[i])]
    IN IF \E i \in 1..n : made[i].status = "panic"
       THEN [status |-> "panic", writer |-> None]
       ELSE [status |-> "ok", writer |-> Some([layers |-> [i \in 1..n |-> made[i].writer.val]])]

\* impl LayersWriter for LayerWriter<C>: headers.first().unwrap()
LayerWriter_extract_uncompressed_block(self, hdrs, blk) ==
    IF hdrs = <<>> THEN [status |-> "panic", bytes |-> <<>>]
    ELSE [status |-> "ok",
          bytes |-> Channels_extract_uncompressed_block(self.channels, hdrs[1], blk)]

\* impl LayersWriter for AllLayersWriter<C>:
\* self.layers[block.layer] and &headers[block.layer..block.layer] panic when out of range
AllLayersWriter_extract_uncompressed_block(self, hdrs, blk) ==
    IF blk.layer >= Len(self.layers) THEN [status |-> "panic", bytes |-> <<>>]
    ELSE IF blk.layer > Len(hdrs) THEN [status |-> "panic", bytes |-> <<>>]
    ELSE LayerWriter_extract_uncompressed_block(
             self.layers[blk.layer + 1], SliceRange(hdrs, blk.layer, blk.layer), blk)

(***************************************************************************)
(* The inputs of the write path.                                           *)
(***************************************************************************)
WriteChannelData ==
    {[list |-> <<[name |-> "R", sample_type |-> "F32"]>>, level_mode |-> "Singular"],
     [list |-> <<[name |-> "G", sample_type |-> "F16"], [name |-> "R", sample_type |-> "U32"]>>,
      level_mode |-> "MipMap"]}

WriteEncodings ==
    {[compression |-> c, blocks |-> b, line_order |-> "Increasing"] :
        c \in {"Uncompressed", "RLE"},
        b \in {[kind |-> "ScanLines"],
               [kind |-> "Tiles", tile_size |-> <<MaxWidth, MaxHeight>>, rounding_mode |-> "Down"]}}

WriteLayers ==
    {[channel_data |-> cd, encoding |-> e, size |-> <<MaxWidth, MaxHeight>>, attributes |-> a] :
        cd \in WriteChannelData, e \in WriteEncodings, a \in {"main", "depth"}}

ImageAttributes == {"display"}

WriteBlocks(n) ==
    {[layer |-> l, pixel_position |-> <<0, 0>>, pixel_size |-> <<MaxWidth, 1>>, data |-> <<>>] :
        l \in 0..n}

(***************************************************************************)
(* The state machine.                                                      *)
(***************************************************************************)
InitRead ==
    /\ pc = "read"
    /\ header \in ReadHeaders
    /\ channel_names \in Selections
    /\ reader = None
    /\ storage = <<>>
    /\ created = 0
    /\ inspected = 0
    /\ blocks_read = 0
    /\ block = NoBlock
    /\ layers = <<>>
    /\ image_attributes = "none"
    /\ headers = <<>>
    /\ writer = None
    /\ channel_line_reader = NoLineReader
    /\ row_bytes = <<>>
    /\ sample = None
    /\ samples_read = 0
    /\ result = NoResult

InitWrite ==
    /\ pc = "write"
    /\ header = NoHeader
    /\ channel_names = <<>>
    /\ reader = None
    /\ storage = <<>>
    /\ created = 0
    /\ inspected = 0
    /\ blocks_read = 0
    /\ block = NoBlock
    /\ layers \in SeqsUpTo(WriteLayers, MaxLayers)
    /\ image_attributes \in ImageAttributes
    /\ headers = <<>>
    /\ writer = None
    /\ channel_line_reader = NoLineReader
    /\ row_bytes = <<>>
    /\ sample = None
    /\ samples_read = 0
    /\ result = NoResult

\* a line reader made by create_channel_line_reader from a slot's pixel reader,
\* about to be used on a row buffer of any length
InitLine ==
    /\ pc = "line"
    /\ header = NoHeader
    /\ channel_names = <<>>
    /\ reader = None
    /\ storage = <<>>
    /\ created = 0
    /\ inspected = 0
    /\ blocks_read = 0
    /\ block = NoBlock
    /\ layers = <<>>
    /\ image_attributes = "none"
    /\ headers = <<>>
    /\ writer = None
    /\ channel_line_reader \in LineReaders
    /\ row_bytes \in RowBuffers
    /\ sample = None
    /\ samples_read = 0
    /\ result = NoResult

Init == InitRead \/ InitWrite \/ InitLine

\* ReadSpecificChannels::create_channels_reader(header)
CreateChannelsReader ==
    /\ pc = "read"
    /\ LET made == create_channels_reader(channel_names, header)
       IN /\ reader' = made.reader
          /\ storage' = IF made.ok THEN made.reader.val.storage ELSE storage
          /\ created' = created + made.created
          /\ inspected' = inspected + made.inspected
          /\ result' = [op |-> "create_channels_reader",
                        status |-> IF made.ok THEN "ok" ELSE "err",
                        error |-> made.error, bytes |-> <<>>]
          /\ pc' = IF made.ok THEN "reading" ELSE "failed"
    /\ UNCHANGED <<header, channel_names, block, blocks_read>>
    /\ UNCHANGED writeVars
    /\ UNCHANGED lineVars

\* the effects of a read_block: the set_pixel calls on the storage, the outcome
ReadBlockDone(done) ==
    /\ storage' = storage \o done.calls
    /\ result' = [op |-> "read_block", status |-> done.status,
                  error |-> done.error, bytes |-> <<>>]
    /\ pc' = IF done.status = "ok" THEN "reading"
             ELSE IF done.status = "err" THEN "failed" ELSE "panicked"

\* SpecificChannelsReader::read_block(header, block)
ReadBlock ==
    /\ pc = "reading"
    /\ blocks_read < MaxBlocks
    /\ \E blk \in ReadBlocks(header, block, blocks_read) :
          /\ block' = blk
          /\ ReadBlockDone(read_block(reader.val, header, blk))
    /\ blocks_read' = blocks_read + 1
    /\ UNCHANGED <<header, channel_names, reader, created, inspected>>
    /\ UNCHANGED writeVars
    /\ UNCHANGED lineVars

\* SpecificChannelsReader::into_channels: the storage is handed to the caller
IntoChannels ==
    /\ pc = "reading"
    /\ pc' = "done"
    /\ result' = [op |-> "into_channels", status |-> "ok", error |-> NoError, bytes |-> <<>>]
    /\ UNCHANGED <<block>>
    /\ UNCHANGED readVars
    /\ UNCHANGED writeVars
    /\ UNCHANGED lineVars

\* Layers::infer_headers(image_attributes)
InferHeaders ==
    /\ pc = "write"
    /\ headers' = Layers_infer_headers(layers, image_attributes)
    /\ result' = [op |-> "infer_headers", status |-> "ok", error |-> NoError, bytes |-> <<>>]
    /\ pc' = "described"
    /\ UNCHANGED <<layers, image_attributes, writer, block>>
    /\ UNCHANGED readVars
    /\ UNCHANGED lineVars

\* Layers::create_writer(headers)
CreateWriter ==
    /\ pc = "described"
    /\ LET made == Layers_create_writer(layers, headers)
       IN /\ writer' = made.writer
          /\ result' = [op |-> "create_writer", status |-> made.status,
                        error |-> NoError, bytes |-> <<>>]
          /\ pc' = IF made.status = "ok" THEN "writing" ELSE "panicked"
    /\ UNCHANGED <<layers, image_attributes, headers, block>>
    /\ UNCHANGED readVars
    /\ UNCHANGED lineVars

\* AllLayersWriter::extract_uncompressed_block(headers, block)
ExtractUncompressedBlock ==
    /\ pc = "writing"
    /\ \E blk \in WriteBlocks(Len(layers)) :
          LET done == AllLayersWriter_extract_uncompressed_block(writer.val, headers, blk)
          IN /\ block' = blk
             /\ result' = [op |-> "extract_uncompressed_block", status |-> done.status,
                           error |-> NoError, bytes |-> done.bytes]
             /\ pc' = IF done.status = "ok" THEN "writing" ELSE "panicked"
    /\ UNCHANGED writeVars
    /\ UNCHANGED readVars
    /\ UNCHANGED lineVars

\* the effects of a read_next_sample: the cursor as the call left it, the sample
ReadNextSampleDone(read) ==
    /\ channel_line_reader' = read.slot
    /\ sample' = IF ~read.ok THEN None
                 ELSE IF channel_line_reader.required THEN Some(read.val) ELSE read.val
    /\ result' = [op |-> "read_next_sample", status |-> IF read.ok THEN "ok" ELSE "err",
                  error |-> read.error, bytes |-> <<>>]

\* ChannelLineReader::read_next_sample(bytes) on the slot's line reader
ReadNextSample ==
    /\ pc = "line"
    /\ samples_read < MaxSamples
    /\ ReadNextSampleDone(read_next_sample(channel_line_reader, row_bytes))
    /\ samples_read' = samples_read + 1
    /\ UNCHANGED <<pc, row_bytes, block>>
    /\ UNCHANGED readVars
    /\ UNCHANGED writeVars

Next ==
    \/ ReadNextSample
    \/ CreateChannelsReader
    \/ ReadBlock
    \/ IntoChannels
    \/ InferHeaders
    \/ CreateWriter
    \/ ExtractUncompressedBlock

Spec == Init /\ [][Next]_vars

(***************************************************************************)
(* Properties.                                                             *)
(***************************************************************************)
ReadPath == channel_names # <<>>

WritePath == image_attributes \in ImageAttributes

NameInList(name, list) == \E i \in 1..Len(list) : list[i].name = name

\* a required slot of the selection has no channel of its name in the layer's channel list
RequiredSlotMissing ==
    \E k \in 1..Len(channel_names) :
        channel_names[k].required /\ ~NameInList(channel_names[k].name, header.channels.list)

\* C1: for a writer built from the layers and the headers inferred from them,
\* extract_uncompressed_block on a block of layer L, 0 <= L < n, completes and
\* returns the bytes layer L's channel writer extracts when given headers[L].
C1_ExtractReturnsLayerBytes ==
    (result.op = "extract_uncompressed_block" /\ block.layer < Len(layers)) =>
        /\ result.status = "ok"
        /\ result.bytes = Channels_extract_uncompressed_block(
                              writer.val.layers[block.layer + 1].channels,
                              headers[block.layer + 1], block)

\* C2: when a required slot has no channel of its name in the channel list,
\* create_channels_reader returns an error and no reader: the storage factory
\* is never called, no block is read and no pixel reaches the sink.
C2_MissingRequiredChannelFails ==
    (ReadPath /\ pc # "read" /\ RequiredSlotMissing) =>
        /\ pc = "failed"
        /\ result.op = "create_channels_reader"
        /\ result.status = "err"
        /\ reader = None
        /\ created = 0
        /\ blocks_read = 0
        /\ storage = <<>>

\* a required channel is missing while another required slot is matched, in a layer without deep data
C2_Witness ==
    /\ ReadPath /\ pc = "failed" /\ ~header.deep
    /\ RequiredSlotMissing
    /\ \E k \in 1..Len(channel_names) :
          channel_names[k].required /\ NameInList(channel_names[k].name, header.channels.list)

\* C3: for a header with deep = TRUE, create_channels_reader returns the
\* deep-data error whether or not the selected channels are present:
\* inspect_channels is not run and the storage factory is not called.
C3_DeepRejectedBeforeResolution ==
    (ReadPath /\ pc # "read" /\ header.deep) =>
        /\ pc = "failed"
        /\ result = [op |-> "create_channels_reader", status |-> "err",
                     error |-> Invalid(DeepDataMessage), bytes |-> <<>>]
        /\ inspected = 0
        /\ created = 0
        /\ reader = None

\* a deep layer whose channel list lacks a required channel was rejected
C3_Witness ==
    /\ ReadPath /\ pc = "failed" /\ header.deep
    /\ RequiredSlotMissing
    /\ header.channels.list # <<>>

\* the slot's resolved channel, as an Option<ChannelIndexInfo>
SlotInfo(slot_reader) ==
    IF slot_reader.required THEN Some(slot_reader.reader) ELSE slot_reader.reader

\* the 0-based list indices of the channels of this name
IndicesOf(name, list) == {i \in 0..(Len(list) - 1) : list[i + 1].name = name}

FirstIndexOf(name, list) == CHOOSE i \in IndicesOf(name, list) : \A j \in IndicesOf(name, list) : i <= j

LastIndexOf(name, list) == CHOOSE i \in IndicesOf(name, list) : \A j \in IndicesOf(name, list) : i >= j

\* the sum of the sample sizes of the channels before list index i
OffsetOf(i, list) == SumBytes(SubSeq(list, 1, i))

\* slot k is the first slot of the selection with its name, and the list has a channel of that name
SlotMatches(k) ==
    /\ MatchingSlot(channel_names, channel_names[k].name) = k
    /\ NameInList(channel_names[k].name, header.channels.list)

\* the slot's descriptor, list index and byte offset are those of list index i
ResolvedTo(k, i) ==
    LET info == SlotInfo(reader.val.pixel_reader[k])
    IN /\ info.some
       /\ info.val.channel_index = i
       /\ info.val.info = header.channels.list[i + 1]
       /\ info.val.sample_byte_offset = OffsetOf(i, header.channels.list)

Words(message) == {message[i] : i \in 1..Len(message)}

\* C9: when resolution fails because a required channel is absent from the
\* channel list, the returned error names the absent channel.
C9_ErrorNamesMissingChannel ==
    (ReadPath /\ pc = "failed" /\ result.op = "create_channels_reader"
        /\ ~header.deep /\ RequiredSlotMissing) =>
        \E k \in 1..Len(channel_names) :
            /\ channel_names[k].required
            /\ ~NameInList(channel_names[k].name, header.channels.list)
            /\ channel_names[k].name \in Words(result.error.message)

\* C10: for n layers infer_headers returns n headers; the i-th is the single
\* header inferred from the i-th layer alone: its channel list, geometry,
\* compression, block shape, line order and attributes are that layer's, deep
\* is FALSE and the deep-specific fields are unset.
C10_OneHeaderPerLayer ==
    (WritePath /\ pc # "write") =>
        /\ Len(headers) = Len(layers)
        /\ \A i \in 1..Len(layers) :
              /\ <<headers[i]>> = Layer_infer_headers(layers[i], image_attributes)
              /\ headers[i].channels.list = layers[i].channel_data.list
              /\ headers[i].layer_size = layers[i].size
              /\ headers[i].compression = layers[i].encoding.compression
              /\ headers[i].blocks.kind = layers[i].encoding.blocks.kind
              /\ headers[i].blocks.kind = "Tiles" =>
                    /\ headers[i].blocks.tile_size = layers[i].encoding.blocks.tile_size
                    /\ headers[i].blocks.rounding_mode = layers[i].encoding.blocks.rounding_mode
                    /\ headers[i].blocks.level_mode = layers[i].channel_data.level_mode
              /\ headers[i].line_order = layers[i].encoding.line_order
              /\ headers[i].shared_attributes = image_attributes
              /\ headers[i].own_attributes = layers[i].attributes
              /\ headers[i].deep = FALSE
              /\ headers[i].deep_data_version = None
              /\ headers[i].max_samples_per_pixel = None

\* the headers of two layers that differ in channels, block shape and attributes were inferred
C10_Witness ==
    /\ WritePath /\ pc = "described" /\ Len(layers) = MaxLayers
    /\ layers[1].channel_data # layers[2].channel_data
    /\ layers[1].encoding.blocks.kind # layers[2].encoding.blocks.kind
    /\ layers[1].attributes # layers[2].attributes

\* the block's byte length differs from bytes_per_pixel * width * height
SizeMismatch(hdr, blk) ==
    hdr.channels.bytes_per_pixel * blk.pixel_size[1] * blk.pixel_size[2] # Len(blk.data)

\* this step is a read_block
ReadBlockStep == result'.op = "read_block" /\ blocks_read' = blocks_read + 1

\* C4: for a block whose byte length differs from bytes_per_pixel * width *
\* height, read_block returns the invalid-block error and leaves the storage
\* as it was: set_pixel is not called for that block.
C4_WrongSizeBlockRejected ==
    [][(ReadBlockStep /\ SizeMismatch(header, block')) =>
          /\ result'.status = "err"
          /\ result'.error = Invalid(BlockSizeMessage)
          /\ storage' = storage]_vars

\* a block of the wrong length was rejected after a block had filled part of the storage
C4_Witness ==
    /\ result.op = "read_block" /\ result.status = "err"
    /\ SizeMismatch(header, block)
    /\ blocks_read > 1
    /\ storage # <<>>
    /\ Len(block.data) > header.channels.bytes_per_pixel * block.pixel_size[1] * block.pixel_size[2]

\* the slot's value in a pixel, as an Option<Sample>
SlotValue(k, pixel) == IF channel_names[k].required THEN Some(pixel[k]) ELSE pixel[k]

\* the sample of this type held by the block's bytes from (0-based) byte start on
SampleAt(sample_type, data, start) ==
    [type |-> sample_type, bits |-> SubSeq(data, start + 1, start + bytes_per_sample(sample_type))]

\* the set_pixel calls made at this position
CallsAt(position) == {i \in 1..Len(storage) : storage[i].position = position}

\* the pixel set at column x of row y of the last block holds, in slot k, the
\* sample at y * (w * bytes_per_pixel) + off_k * w + x * size_k
PixelHoldsPlanarSample(k, x, y) ==
    LET list == header.channels.list
        w == block.pixel_size[1]
        info == SlotInfo(reader.val.pixel_reader[k]).val
        sample_type == list[info.channel_index + 1].sample_type
        start == y * (w * header.channels.bytes_per_pixel)
                    + OffsetOf(info.channel_index, list) * w
                    + x * bytes_per_sample(sample_type)
        at == CallsAt(<<block.pixel_position[1] + x, block.pixel_position[2] + y>>)
    IN /\ at # {}
       /\ \A i \in at : SlotValue(k, storage[i].pixel) = Some(SampleAt(sample_type, block.data, start))

\* the values of a four-byte sample
Bits(n) == <<n, 0, 0, 0>>

\* C5: after read_block succeeded on a size-valid block of width w, the pixel
\* set at column x of row y holds in each matched slot k the sample decoded, in
\* the channel's declared encoding, from the block bytes at
\* y * (w * bytes_per_pixel) + off_k * w + x * size_k, off_k being the summed
\* sample sizes of the channels before slot k's channel.  The rows R = 1, 2 / 3, 4
\* and G = 5, 6 / 7, 8 decode to (1,5), (2,6), (3,7), (4,8) in row-major order.
C5_PlanarSampleOffsets ==
    (ReadPath /\ result.op = "read_block" /\ result.status = "ok") =>
        /\ \A k \in 1..Len(channel_names) :
              SlotInfo(reader.val.pixel_reader[k]).some =>
                 \A x \in 0..(block.pixel_size[1] - 1), y \in 0..(block.pixel_size[2] - 1) :
                    PixelHoldsPlanarSample(k, x, y)
        /\ (/\ block.data = PlanarExample
            /\ blocks_read = 1
            /\ header.channels.list = <<[name |-> "R", sample_type |-> "F32"],
                                        [name |-> "G", sample_type |-> "F32"]>>
            /\ channel_names[1] = [name |-> "R", required |-> TRUE]
            /\ channel_names[2] = [name |-> "G", required |-> TRUE]) =>
              [i \in 1..Len(storage) |-> <<storage[i].pixel[1].bits, storage[i].pixel[2].bits>>]
                 = << <<Bits(1), Bits(5)>>, <<Bits(2), Bits(6)>>,
                      <<Bits(3), Bits(7)>>, <<Bits(4), Bits(8)>> >>

\* a block of two rows of two pixels was read with all three slots matched, to
\* channels of different sample sizes that the list declares in another order
C5_Witness ==
    /\ ReadPath /\ result.op = "read_block" /\ result.status = "ok"
    /\ block.pixel_size = <<2, 2>>
    /\ \A k \in 1..Len(channel_names) : SlotInfo(reader.val.pixel_reader[k]).some
    /\ SlotInfo(reader.val.pixel_reader[1]).val.channel_index > 0
    /\ \E k \in 1..Len(channel_names) :
          SlotInfo(reader.val.pixel_reader[k]).val.info.sample_type = "F16"

\* the sequence without its k-th element
WithoutSlot(seq, k) == [i \in 1..(Len(seq) - 1) |-> IF i < k THEN seq[i] ELSE seq[i + 1]]

\* the optional slots whose name is not in the channel list
AbsentOptionalSlots ==
    {k \in 1..Len(channel_names) :
        ~channel_names[k].required /\ ~NameInList(channel_names[k].name, header.channels.list)}

\* the outcome of the last read_block, and the positions and pixels it set, are
\* those of this read_block, slot k aside
SameButSlot(k, done) ==
    /\ done.status = result.status
    /\ Len(storage) >= Len(done.calls)
    /\ \A i \in 1..Len(done.calls) :
          LET call == storage[Len(storage) - Len(done.calls) + i]
          IN /\ call.position = done.calls[i].position
             /\ WithoutSlot(call.pixel, k) = done.calls[i].pixel

\* C6: an optional slot whose name is not in the channel list does not fail
\* the resolution; in every pixel set the slot is None, its cursor has no byte
\* index before or after any read, and the other slots resolve and decode to
\* what they do for the selection without that slot.
C6_AbsentOptionalSlot ==
    (ReadPath /\ ~header.deep /\ pc # "read") =>
        \A k \in AbsentOptionalSlots :
            LET alone == create_channels_reader(WithoutSlot(channel_names, k), header)
            IN /\ reader.some = alone.ok
               /\ reader.some =>
                    /\ ~SlotInfo(reader.val.pixel_reader[k]).some
                    /\ WithoutSlot(reader.val.pixel_reader, k) = alone.reader.val.pixel_reader
                    /\ \A i \in 1..Len(storage) :
                          /\ storage[i].pixel[k] = None
                          /\ storage[i].before[k] = None
                          /\ storage[i].after[k] = None
                    /\ result.op = "read_block" =>
                          SameButSlot(k, read_block(alone.reader.val, header, block))

\* a block of two rows of two pixels was read with the first slot optional and
\* absent and a later slot matched to a channel that is not the first of the list
C6_Witness ==
    /\ ReadPath /\ result.op = "read_block" /\ result.status = "ok"
    /\ block.pixel_size = <<2, 2>>
    /\ 1 \in AbsentOptionalSlots
    /\ \E k \in 2..Len(channel_names) :
          /\ SlotInfo(reader.val.pixel_reader[k]).some
          /\ SlotInfo(reader.val.pixel_reader[k]).val.sample_byte_offset > 0

\* the byte index each slot's cursor has at the start of a row of w pixels
RowStart(w) ==
    [k \in 1..Len(channel_names) |->
        LET info == SlotInfo(reader.val.pixel_reader[k])
        IN IF info.some
           THEN Some(OffsetOf(info.val.channel_index, header.channels.list) * w)
           ELSE None]

\* C7: a successful read_block on a block of width w, height h and origin o
\* calls set_pixel w * h times, once per pixel, rows top to bottom and columns
\* left to right: the i-th call is at o + (i mod w, i div w); every row starts
\* with the cursors at the channels' row starts, and within a row each read
\* continues where the last one ended.
C7_OneSinkCallPerPixelInOrder ==
    [][(ReadBlockStep /\ result'.status = "ok") =>
          LET w == block'.pixel_size[1]
              h == block'.pixel_size[2]
              o == block'.pixel_position
              n == Len(storage)
          IN /\ Len(storage') = n + w * h
             /\ SubSeq(storage', 1, n) = storage
             /\ \A i \in 0..(w * h - 1) :
                   /\ storage'[n + i + 1].position = <<o[1] + (i % w), o[2] + (i \div w)>>
                   /\ (i % w = 0) => storage'[n + i + 1].before = RowStart(w)
                   /\ (i % w # 0) => storage'[n + i + 1].before = storage'[n + i].after]_vars

\* a second block of two rows of two pixels was read, away from the origin
C7_Witness ==
    /\ ReadPath /\ result.op = "read_block" /\ result.status = "ok"
    /\ blocks_read > 1
    /\ block.pixel_size = <<2, 2>>
    /\ block.pixel_position[2] > 0
    /\ Len(storage) > 4
    /\ \E k \in 1..Len(channel_names) :
          /\ SlotInfo(reader.val.pixel_reader[k]).some
          /\ SlotInfo(reader.val.pixel_reader[k]).val.sample_byte_offset > 0

\* C11: read_block does not abort on a block that passes its size validation,
\* blocks of width 0 or height 0 and headers of 0 bytes per pixel included:
\* the block's bytes are split into height rows of width * bytes_per_pixel
\* bytes and the row count assertion holds.
C11_SizeValidBlockNeverAborts ==
    (ReadPath /\ result.op = "read_block" /\ ~SizeMismatch(header, block)) =>
        result.status # "panic"

\* this step is a read_next_sample on the slot's line reader
ReadNextSampleStep == result'.op = "read_next_sample" /\ samples_read' = samples_read + 1

\* the (SampleType, usize) cursor of a slot's line reader, None for an absent optional slot
PresentCursor(slot) == IF slot.required THEN Some(slot.cursor) ELSE slot.cursor

\* fewer bytes than the cursor's sample needs remain in the row from the cursor's index on
RowOverrun(slot, bytes) ==
    /\ PresentCursor(slot).some
    /\ PresentCursor(slot).val.index + bytes_per_sample(PresentCursor(slot).val.sample_type)
          > Len(bytes)

SlotChannelIndex(k) == SlotInfo(reader.val.pixel_reader[k]).val.channel_index

SlotSize(k) == bytes_per_sample(header.channels.list[SlotChannelIndex(k) + 1].sample_type)

SlotOffset(k) == OffsetOf(SlotChannelIndex(k), header.channels.list)

\* the cursor of present slot k stays inside its channel's run of a row of w
\* pixels during the read recorded by this set_pixel call
CursorInsideRun(call, k, w) ==
    /\ call.before[k].some /\ call.after[k].some
    /\ SlotOffset(k) * w <= call.before[k].val
    /\ call.before[k].val + SlotSize(k) <= (SlotOffset(k) + SlotSize(k)) * w
    /\ (SlotOffset(k) + SlotSize(k)) * w <= w * header.channels.bytes_per_pixel
    /\ call.after[k].val = call.before[k].val + SlotSize(k)

\* C13: read_block on a size-valid block, with the header the channels were
\* resolved against (bytes_per_pixel the sum of its channels' sample sizes):
\* before each read of a present slot k in a row of w pixels,
\* off_k * w <= index and index + size_k <= (off_k + size_k) * w <= row length,
\* so no read leaves the channel's run or the row, the clamp is not exercised,
\* and read_block returns no error after the size check.
C13_CursorsStayInsideChannelRuns ==
    [][(ReadBlockStep /\ ~SizeMismatch(header, block')) =>
          /\ header.channels.bytes_per_pixel = SumBytes(header.channels.list)
          /\ result'.status # "err"
          /\ \A i \in (Len(storage) + 1)..Len(storage') :
                \A k \in 1..Len(channel_names) :
                   SlotInfo(reader.val.pixel_reader[k]).some =>
                      CursorInsideRun(storage'[i], k, block'.pixel_size[1])]_vars

\* a block of two rows of two pixels was read with three present slots, one of
\* them resolved to a two-byte channel that is not the first of the list
C13_Witness ==
    /\ ReadPath /\ result.op = "read_block" /\ result.status = "ok"
    /\ block.pixel_size = <<2, 2>>
    /\ Len(storage) >= 4
    /\ \A k \in 1..Len(channel_names) : SlotInfo(reader.val.pixel_reader[k]).some
    /\ \E k \in 1..Len(channel_names) : SlotSize(k) = 2 /\ SlotOffset(k) > 0
    /\ \E k \in 1..Len(channel_names) : SlotSize(k) = 4 /\ SlotOffset(k) > 0

====
